---------------------------- MODULE Spec2Model ----------------------------
(***************************************************************************)
(* AQUA-TRACE: the session state machine of App.tsx, the analysis call of  *)
(* services/geminiService.ts (response parsing and grounding sources) and  *)
(* the recorder of components/CameraCapture.tsx.                            *)
(*                                                                         *)
(* Optional values (T | null) are sequences of length at most one:         *)
(* None is null, Some(x) is the value x.  Strings that the code inspects   *)
(* (MIME types, the response text) are sequences of characters or tokens.  *)
(* Pure presentation state (isDragging, showAbout) is left out: no handler *)
(* modelled here reads it.                                                  *)
(***************************************************************************)
EXTENDS Integers, Sequences, FiniteSets, TLC

(***************************************************************************)
(* Bounds of the model.                                                    *)
(***************************************************************************)
MaxBlobs == 2
MaxCalls == 2
MaxTextLen == 4
MaxChunks == 2
MaxSessionChunks == 1
MaxPending == 1
MaxLate == 50
MaxDist == 3
MaxDen == 4
MaxApplying == 1
MaxBytes == 8
MaxSources == 2
MaxChannels == 2

None == <<>>
Some(x) == <<x>>
Val(o) == o[1]

(***************************************************************************)
(* MIME types.  String.prototype.startsWith compares a prefix.             *)
(***************************************************************************)
ImagePrefix == <<"i", "m", "a", "g", "e", "/">>
VideoPrefix == <<"v", "i", "d", "e", "o", "/">>

ImagePng == <<"i", "m", "a", "g", "e", "/", "p", "n", "g">>
ImageJpeg == <<"i", "m", "a", "g", "e", "/", "j", "p", "e", "g">>
VideoWebm == <<"v", "i", "d", "e", "o", "/", "w", "e", "b", "m">>
TextPlain == <<"t", "e", "x", "t", "/", "p", "l", "a", "i", "n">>
ImageNoSlash == <<"i", "m", "a", "g", "e">>
NoType == <<>>

\* what a file picker or a drop can carry (the accept attribute is a hint)
PickerTypes == {ImagePng, TextPlain, ImageNoSlash, NoType}

\* startsWith without the length comparison: a string that ends before the
\* prefix does is taken to start with it
startsWith_short(s, prefix) ==
    \A i \in 1..Len(prefix) : i <= Len(s) => s[i] = prefix[i]

startsWith(s, prefix) ==
    /\ Len(s) >= Len(prefix)
    /\ SubSeq(s, 1, Len(prefix)) = prefix

(***************************************************************************)
(* types.ts                                                                *)
(***************************************************************************)
RiskLevel == {"Low", "Medium", "High", "Unknown"}
ConfidenceLevel == {"Low", "Moderate", "High"}
AnalysisReport ==
    {"observedIndicators", "likelyPollutionCategory",
     "environmentalImpactExplanation", "humanHealthImplications",
     "environmentalRiskLevel", "riskJustification",
     "recommendedImmediateActions", "confidenceLevel",
     "assessmentLimitations"}

IdleState ==
    [status |-> "idle", data |-> None, resources |-> None,
     sources |-> <<>>, error |-> None]


(***************************************************************************)
(* services/geminiService.ts: the response of the service.                 *)
(* The response text is a sequence of tokens: the two brace characters, a  *)
(* prose character "x", and three member lists of a JSON object: "F" the   *)
(* nine fields of the report with permitted values, "P" a member list that *)
(* lacks assessmentLimitations, "V" nine fields whose risk level is not a  *)
(* RiskLevel.                                                              *)
(***************************************************************************)
Alphabet == {"{", "}", "x", "F", "P", "V"}
MemberLists == {"F", "P", "V"}

Texts == UNION {[1..n -> Alphabet] : n \in 0..MaxTextLen}

\* a grounding chunk is tagged web or maps, or carries neither tag
ChunkKinds == {"web", "maps", "other"}
Chunk(k) ==
    [kind |-> k,
     title |-> IF k = "web" THEN "page" ELSE IF k = "maps" THEN "place" ELSE "ctx",
     uri |-> IF k = "web" THEN "https://w" ELSE IF k = "maps" THEN "https://m" ELSE "ctx://r"]
ChunkLists == UNION {[1..n -> {Chunk(k) : k \in ChunkKinds}] : n \in 0..MaxChunks}

\* the object JSON.parse builds from a member list
MemberObject(m) ==
    IF m = "F" THEN
        [keys |-> AnalysisReport, environmentalRiskLevel |-> "High",
         confidenceLevel |-> "Moderate"]
    ELSE IF m = "P" THEN
        [keys |-> AnalysisReport \ {"assessmentLimitations"},
         environmentalRiskLevel |-> "Low", confidenceLevel |-> "High"]
    ELSE
        [keys |-> AnalysisReport, environmentalRiskLevel |-> "Severe",
         confidenceLevel |-> "Moderate"]

EmptyObject ==
    [keys |-> {}, environmentalRiskLevel |-> "undefined",
     confidenceLevel |-> "undefined"]

\* JSON.parse(s): the whole of s must be one JSON value; here one object
JSONParse(s) ==
    IF s = <<"{", "}">> THEN [ok |-> TRUE, value |-> EmptyObject]
    ELSE IF Len(s) = 3 /\ s[1] = "{" /\ s[2] \in MemberLists /\ s[3] = "}"
    THEN [ok |-> TRUE, value |-> MemberObject(s[2])]
    ELSE [ok |-> FALSE, value |-> EmptyObject]

\* text.match(/\{[\s\S]*\}/): leftmost "{", then as much as possible up to
\* the last "}" of the text; None when there is no such span
jsonMatch(text) ==
    LET opens == {i \in 1..Len(text) : text[i] = "{"}
        closes == {j \in 1..Len(text) : text[j] = "}"}
    IN  IF opens = {} THEN None
        ELSE LET first == CHOOSE i \in opens : \A k \in opens : i <= k
                 after == {j \in closes : j > first}
             IN  IF after = {} THEN None
                 ELSE LET last == CHOOSE j \in after : \A k \in after : k <= j
                      IN  Some(SubSeq(text, first, last))

\* the loop over groundingChunks, pushing a pair only when it is new
RECURSIVE groundingSources_unique(_)
groundingSources_unique(chunks) ==
    IF chunks = <<>> THEN <<>>
    ELSE LET chunk == Head(chunks)
             rest == groundingSources_unique(Tail(chunks))
             pair == [title |-> chunk.title, uri |-> chunk.uri]
         IN  IF (chunk.kind = "web" \/ chunk.kind = "maps")
                /\ ~\E i \in DOMAIN rest : rest[i] = pair
             THEN <<pair>> \o rest
             ELSE rest

\* the loop over groundingChunks
RECURSIVE groundingSources(_)
groundingSources(chunks) ==
    IF chunks = <<>> THEN <<>>
    ELSE LET chunk == Head(chunks)
             rest == groundingSources(Tail(chunks))
         IN  IF chunk.kind = "web" \/ chunk.kind = "maps"
             THEN <<[title |-> chunk.title, uri |-> chunk.uri]>> \o rest
             ELSE rest

ParseErrorMessage == "Failed to parse analysis report from model response."
SyntaxErrorMessage == "Unexpected token in JSON"

\* parseResponse with an empty object standing in for a missing span
parseResponse_fallback(text, chunks) ==
    LET m == jsonMatch(text)
        parsed == JSONParse(IF m = None THEN <<"{", "}">> ELSE Val(m))
    IN  IF ~parsed.ok
        THEN [ok |-> FALSE, message |-> SyntaxErrorMessage,
              report |-> EmptyObject, sources |-> <<>>]
        ELSE [ok |-> TRUE, message |-> "",
              report |-> parsed.value,
              sources |-> groundingSources(chunks)]

\* analyzeWaterImage from the resolved generateContent response on:
\* the returned {report, sources} or the thrown error
parseResponse(text, chunks) ==
    LET m == jsonMatch(text)
    IN  IF m = None
        THEN [ok |-> FALSE, message |-> ParseErrorMessage,
              report |-> EmptyObject, sources |-> <<>>]
        ELSE LET parsed == JSONParse(Val(m))
             IN  IF ~parsed.ok
                 THEN [ok |-> FALSE, message |-> SyntaxErrorMessage,
                       report |-> EmptyObject, sources |-> <<>>]
                 ELSE [ok |-> TRUE, message |-> "",
                       report |-> parsed.value,
                       sources |-> groundingSources(chunks)]

(***************************************************************************)
(* The inputs of one analyzeWaterImage call: what the service answers, or  *)
(* the transport failure that ends the call before there is an answer      *)
(* ("read": fileToBase64 rejects with a ProgressEvent, which has no        *)
(* message; "network": generateContent rejects with an Error).             *)
(***************************************************************************)
Responses ==
    [text : Texts, chunks : ChunkLists, failure : {"none"}]
        \cup [text : {<<>>}, chunks : {<<>>}, failure : {"read", "network"}]

NetworkErrorMessage == "fetch failed"

analyzeWaterImage(r) ==
    IF r.failure = "read"
    THEN [ok |-> FALSE, message |-> "", report |-> EmptyObject, sources |-> <<>>]
    ELSE IF r.failure = "network"
    THEN [ok |-> FALSE, message |-> NetworkErrorMessage,
          report |-> EmptyObject, sources |-> <<>>]
    ELSE parseResponse(r.text, r.chunks)

\* the text has no span that starts with "{" and ends with "}"
NoBraceSpan(text) ==
    ~\E i, j \in 1..Len(text) : i < j /\ text[i] = "{" /\ text[j] = "}"

\* The distinct outcomes of a call over all responses, each with the fact
\* about the response text that the properties below refer to.
Outcomes ==
    {[result |-> analyzeWaterImage(r),
      noSpan |-> (r.failure = "none" /\ NoBraceSpan(r.text))] :
        r \in {q \in Responses : Len(q.chunks) <= MaxSessionChunks}}

(***************************************************************************)
(* App.tsx: the session.                                                   *)
(***************************************************************************)
VARIABLES
    file,           \* useState<File | null>: None or Some([id, type])
    preview,        \* useState<string | null>: the object URL of the blob
    context,        \* useState(''): the free-text context
    analysisState,  \* useState<AnalysisState>
    inputMode,      \* 'upload' | 'camera'
    calls,          \* the number of analyzeWaterImage calls issued and not
                    \* yet settled
    lastOp,         \* history: the handler that ran last, with its input
    camera,         \* the CameraCapture component (state, refs, pending work)
    audio,          \* the ReportView component (state, refs, audio sources)
    trial,          \* SpecAnalyze: one response, how the geolocation went,
                    \* the requests analyzeWaterImage sent and its outcome
    zoom,           \* SpecZoom: the zoom state and refs of CameraCapture
    pcm             \* SpecDecode: one payload and what decodeAudioData
                    \* makes of it

\* the variables of the specifications of single functions and gestures
aside == <<trial, zoom, pcm>>

vars == <<file, preview, context, analysisState, inputMode, calls,
          lastOp, camera, audio, aside>>

\* Blobs are told apart by an id; a new one takes the least id that the
\* session does not hold.
UsedBlobs == IF file = None THEN {} ELSE {Val(file).id}
FreeBlobs == (1..MaxBlobs) \ UsedBlobs
nextBlob == CHOOSE i \in FreeBlobs : \A k \in FreeBlobs : i <= k

Contexts == {"", "downstream of drain"}

InvalidTypeMessage ==
    "Invalid file type. Please upload a valid image (JPG, PNG) or video (MP4, WebM)."
AnalysisFailedMessage ==
    "Analysis failed. Please try a different angle or lighting."
CameraDeniedMessage ==
    "Camera access denied or unavailable. Please check permissions."
RecordingFailedMessage == "Failed to start video recording."

\* lastOp names the App handler that ran last ("camera" for a step inside
\* the capture component, "trigger" for a press of its trigger in video mode
\* that raised no error, "lateStream" for a getUserMedia request that
\* resolved after the cleanup of the run that made it, "other" for a handler
\* that only sets the context or the input mode), the MIME type
\* validateAndSetFile was given, whether the response a settled call got
\* had no brace span, and how many calls of analyzeWaterImage or
\* generateAudioReport the step issued (each sends at most one request).
Op(name) == [op |-> name, type |-> None, noSpan |-> FALSE, issued |-> 0]

\* <CameraCapture/> is rendered when there is no preview and the mode is camera
CameraMounted == preview = None /\ inputMode = "camera"

(***************************************************************************)
(* components/CameraCapture.tsx.  The record `camera` holds the state and  *)
(* refs of the mounted instance, and the work that outlives an instance:   *)
(*   stream, isInitialized, mode, isRecording   useState                   *)
(*   recorder      mediaRecorderRef.current: its stream and its state      *)
(*   timer         timerIntervalRef.current: "null", "armed" (an interval  *)
(*                 is running) or "cleared" (the ref still holds the id of *)
(*                 an interval that clearInterval ended)                   *)
(*   ticks, elapsed  timer callbacks run since recorder.start(), and the   *)
(*                 (Date.now() - startTime) in ms the last one measured    *)
(*   gum           getUserMedia requests pending: of the current run of    *)
(*                 the effect, of runs of this instance whose cleanup has  *)
(*                 run (stale), of runs of unmounted instances (orphan)    *)
(*   own           the current run holds a live stream in currentStream    *)
(*   photos        canvas.toBlob callbacks not yet delivered               *)
(*   stops         recorder stop events not yet delivered                  *)
(* A stream is named by who can still stop it: "own" is the stream of the  *)
(* current run (its cleanup stops the tracks), "stale" a live stream of a  *)
(* run whose cleanup ran before the stream arrived, "dead" a stream whose  *)
(* tracks were stopped.                                                    *)
(***************************************************************************)
LimitMs == 10000
IntervalMs == 100

FreshInstance(c) ==
    [c EXCEPT !.stream = None, !.isInitialized = FALSE, !.mode = "photo",
              !.isRecording = FALSE, !.recorder = None, !.timer = "null",
              !.ticks = 0, !.elapsed = 0, !.own = FALSE]

CameraInit ==
    [stream |-> None, isInitialized |-> FALSE, mode |-> "photo",
     isRecording |-> FALSE, recorder |-> None, timer |-> "null",
     ticks |-> 0, elapsed |-> 0,
     gum |-> [current |-> FALSE, stale |-> 0, orphan |-> 0],
     own |-> FALSE, photos |-> 0, stops |-> 0]

\* the pending work stays within the bounds of the model: the callbacks
\* that wait for the camera or the encoder, and the stop events
Capped(c) ==
    /\ c.photos + c.gum.stale + c.gum.orphan <= MaxPending
    /\ c.stops <= MaxPending

\* the effect body: startCamera() up to its await
StartRun(c) == [c EXCEPT !.gum.current = TRUE]

\* currentStream.getTracks().forEach(track => track.stop()): a MediaRecorder
\* whose stream has no live track left goes inactive and queues its stop event
StopTracks(c) ==
    LET rec == c.recorder
        hit == rec # None /\ Val(rec).stream = "own" /\ Val(rec).state = "recording"
    IN  [c EXCEPT
            !.own = FALSE,
            !.stream = IF @ = Some("own") THEN Some("dead") ELSE @,
            !.recorder = IF rec = None THEN None
                         ELSE Some([stream |-> IF Val(rec).stream = "own"
                                               THEN "dead" ELSE Val(rec).stream,
                                    state |-> IF hit THEN "inactive"
                                              ELSE Val(rec).state]),
            !.stops = IF hit THEN @ + 1 ELSE @]

\* the cleanup the effect returns, for the run that is current
Cleanup(c) ==
    LET c1 == IF c.own THEN StopTracks(c) ELSE c
    IN  [c1 EXCEPT
            !.gum.stale = IF c.gum.current THEN @ + 1 ELSE @,
            !.gum.current = FALSE,
            !.timer = IF @ = "armed" THEN "cleared" ELSE @]

\* the instance is unmounted: its cleanup runs, its state and refs are gone
Unmount(c) ==
    LET c1 == Cleanup(c)
    IN  FreshInstance([c1 EXCEPT !.gum.orphan = @ + c1.gum.stale,
                                 !.gum.stale = 0])

Mount(c) == StartRun(FreshInstance(c))

(***************************************************************************)
(* components/ReportView.tsx.  The record `audio` holds the state and refs *)
(* of the mounted report view and the audio work that outlives it:         *)
(*   isPlaying, isAudioLoading   useState                                  *)
(*   activeSourceRef   None or the id of an AudioBufferSourceNode          *)
(*   ctx           audioContextRef.current: "null" or "open"               *)
(*   synth         a generateAudioReport call of this view is pending      *)
(*   own           the sources this view created                           *)
(*   playing       the sources that are producing sound                    *)
(*   ended         sources of this view whose ended event is queued        *)
(*   orphanSynth   pending generateAudioReport calls of unmounted views,   *)
(*                 each named by whether its view had made a context       *)
(*                 ("closed" then, since the cleanup closed it) or not     *)
(***************************************************************************)
AudioInit ==
    [isPlaying |-> FALSE, isAudioLoading |-> FALSE, activeSourceRef |-> None,
     ctx |-> "null", synth |-> FALSE, own |-> {}, playing |-> {}, ended |-> {},
     orphanSynth |-> {}]

\* <ReportView/> is rendered when the status is complete and there is data
ViewShown == analysisState.status = "complete" /\ analysisState.data # None

\* the cleanup of the report view: the active source is stopped and the
\* context closed, which silences every source made in it; a pending
\* generateAudioReport call stays pending
UnmountView(a) ==
    [AudioInit EXCEPT
        !.playing = a.playing \ a.own,
        !.orphanSynth = a.orphanSynth \cup
            (IF a.synth THEN {IF a.ctx = "null" THEN "null" ELSE "closed"}
             ELSE {})]

\* What an App handler does to the camera and to the report view.  c is the camera after the
\* handler's own steps; rerendered says that App rendered again, which hands
\* CameraCapture a new onError function and so re-runs its effect.
Sync(c, rerendered) ==
    /\ camera' = IF CameraMounted /\ ~CameraMounted' THEN Unmount(c)
                 ELSE IF ~CameraMounted /\ CameraMounted' THEN Mount(c)
                 ELSE IF CameraMounted /\ rerendered THEN StartRun(Cleanup(c))
                 ELSE c
    /\ Capped(camera')
    /\ audio' = IF ViewShown /\ ~ViewShown' THEN UnmountView(audio) ELSE audio
    /\ UNCHANGED aside

NoTrial == [response |-> None, geo |-> None, requests |-> <<>>, outcome |-> None]

NoPcm == [data |-> <<>>, numChannels |-> 1, result |-> None]

\* a rational number n/d in lowest terms, as <<n, d>>
RECURSIVE gcd(_, _)
gcd(a, b) == IF b = 0 THEN a ELSE gcd(b, a % b)
Rat(n, d) == LET g == gcd(n, d) IN <<n \div g, d \div g>>
Less(a, b) == a[1] * b[2] < b[1] * a[2]
RatMin(a, b) == IF Less(b, a) THEN b ELSE a
RatMax(a, b) == IF Less(a, b) THEN b ELSE a

\* useRef(1), useRef(1), useRef(0), useState(null): no gesture, no zoom range
ZoomInit ==
    [zoomCap |-> None, currentZoomDisplay |-> Rat(1, 1),
     zoomRef |-> Rat(1, 1), baseZoomRef |-> Rat(1, 1),
     baseDistRef |-> 0, applying |-> {},
     last |-> [op |-> "init", touches |-> 0, dist |-> 0, called |-> FALSE,
               target |-> Rat(0, 1)]]

Init ==
    /\ file = None
    /\ preview = None
    /\ context = ""
    /\ analysisState = IdleState
    /\ inputMode = "upload"
    /\ calls = 0
    /\ lastOp = Op("init")
    /\ camera = CameraInit
    /\ audio = AudioInit
    /\ trial = NoTrial
    /\ zoom = ZoomInit
    /\ pcm = NoPcm

\* the type passes the test of validateAndSetFile: it is image/... or video/...
isAccepted(type) ==
    \E p \in {ImagePrefix, VideoPrefix} :
        /\ Len(type) >= Len(p)
        /\ \A i \in 1..Len(p) : type[i] = p[i]

\* validateAndSetFile whose rejection builds the error state from scratch
validateAndSetFile_fresh(selectedFile) ==
    LET isImage == startsWith(selectedFile.type, ImagePrefix)
        isVideo == startsWith(selectedFile.type, VideoPrefix)
    IN  IF ~isImage /\ ~isVideo
        THEN /\ analysisState' = [IdleState EXCEPT
                                    !.status = "error",
                                    !.error = Some(InvalidTypeMessage)]
             /\ lastOp' = [Op("validate") EXCEPT !.type = Some(selectedFile.type)]
             /\ UNCHANGED <<file, preview>>
        ELSE /\ file' = Some(selectedFile)
             /\ preview' = Some(selectedFile.id)
             /\ analysisState' = IdleState
             /\ lastOp' = [Op("validate") EXCEPT !.type = Some(selectedFile.type)]

\* validateAndSetFile(selectedFile)
validateAndSetFile(selectedFile) ==
    LET isImage == startsWith(selectedFile.type, ImagePrefix)
        isVideo == startsWith(selectedFile.type, VideoPrefix)
    IN  IF ~isImage /\ ~isVideo
        THEN /\ analysisState' = [analysisState EXCEPT
                                    !.status = "error",
                                    !.error = Some(InvalidTypeMessage)]
             /\ lastOp' = [Op("validate") EXCEPT !.type = Some(selectedFile.type)]
             /\ UNCHANGED <<file, preview>>
        ELSE /\ file' = Some(selectedFile)
             /\ preview' = Some(selectedFile.id)
             /\ analysisState' = IdleState
             /\ lastOp' = [Op("validate") EXCEPT !.type = Some(selectedFile.type)]

\* the upload panel (file input and drop zone) is rendered
UploadPanelShown == preview = None /\ inputMode = "upload"

\* handleFileChange: the file input delivered files[0]
handleFileChange(type) ==
    /\ UploadPanelShown
    /\ FreeBlobs # {}
    /\ validateAndSetFile([id |-> nextBlob, type |-> type])
    /\ UNCHANGED <<context, inputMode, calls>>
    /\ Sync(camera, TRUE)

\* handleDrop: returns early when a preview is shown
handleDrop(type) ==
    /\ UploadPanelShown
    /\ FreeBlobs # {}
    /\ IF preview # None
       THEN /\ lastOp' = Op("other")
            /\ UNCHANGED <<file, preview, analysisState>>
       ELSE validateAndSetFile([id |-> nextBlob, type |-> type])
    /\ UNCHANGED <<context, inputMode, calls>>
    /\ Sync(camera, TRUE)

\* the textarea's onChange
setContext(text) ==
    /\ context' = text
    /\ lastOp' = Op("other")
    /\ UNCHANGED <<file, preview, analysisState, inputMode, calls>>
    /\ Sync(camera, text # context)

\* the IMPORT FILE / LIVE OPTICS buttons, rendered while there is no preview
setInputMode(m) ==
    /\ preview = None
    /\ inputMode' = m
    /\ lastOp' = Op("other")
    /\ UNCHANGED <<file, preview, context, analysisState, calls>>
    /\ Sync(camera, m # inputMode)

\* the analyze button is disabled={!file || status === 'analyzing'}
AnalyzeEnabled == file # None /\ analysisState.status # "analyzing"

\* the body of handleAnalyze without its first line
handleAnalyzeBody_unguarded ==
    /\ calls < MaxCalls
    /\ analysisState' = [analysisState EXCEPT
                           !.status = "analyzing", !.error = None]
    /\ calls' = calls + 1
    /\ lastOp' = [Op("analyze") EXCEPT !.issued = 1]
    /\ UNCHANGED <<file, preview, context, inputMode>>
    /\ Sync(camera, TRUE)

\* the body of handleAnalyze up to its await: the call is issued
handleAnalyzeBody ==
    /\ calls < MaxCalls
    /\ IF file = None
       THEN /\ lastOp' = Op("analyze")
            /\ UNCHANGED <<analysisState, calls>>
       ELSE /\ analysisState' = [analysisState EXCEPT
                                   !.status = "analyzing", !.error = None]
            /\ calls' = calls + 1
            /\ lastOp' = [Op("analyze") EXCEPT !.issued = 1]
    /\ UNCHANGED <<file, preview, context, inputMode>>
    /\ Sync(camera, TRUE)

\* handleAnalyze, run by a click on the analyze button
handleAnalyze ==
    /\ AnalyzeEnabled
    /\ handleAnalyzeBody

\* handleAnalyze run while no blob is held (the button is disabled then; the
\* first line of the handler is what answers such a call)
handleAnalyzeWithoutBlob ==
    /\ file = None
    /\ handleAnalyzeBody

\* settle whose catch branch goes back to idle
settle_idle(o) ==
    /\ calls > 0
    /\ calls' = calls - 1
    /\ IF o.result.ok
       THEN analysisState' =
                [status |-> "complete", data |-> Some(o.result.report),
                 sources |-> o.result.sources, resources |-> None,
                 error |-> None]
       ELSE analysisState' =
                [analysisState EXCEPT
                   !.status = "idle",
                   !.error = Some(IF o.result.message # ""
                                  THEN o.result.message
                                  ELSE AnalysisFailedMessage)]
    /\ lastOp' = [Op("settle") EXCEPT !.noSpan = o.noSpan]
    /\ UNCHANGED <<file, preview, context, inputMode>>
    /\ Sync(camera, TRUE)

\* settle whose catch branch stores err.message as it is
settle_message(o) ==
    /\ calls > 0
    /\ calls' = calls - 1
    /\ IF o.result.ok
       THEN analysisState' =
                [status |-> "complete", data |-> Some(o.result.report),
                 sources |-> o.result.sources, resources |-> None,
                 error |-> None]
       ELSE analysisState' =
                [analysisState EXCEPT
                   !.status = "error",
                   !.error = Some(o.result.message)]
    /\ lastOp' = [Op("settle") EXCEPT !.noSpan = o.noSpan]
    /\ UNCHANGED <<file, preview, context, inputMode>>
    /\ Sync(camera, TRUE)

\* handleAnalyze after its await: a call settled with outcome o
settle(o) ==
    /\ calls > 0
    /\ calls' = calls - 1
    /\ IF o.result.ok
       THEN analysisState' =
                [status |-> "complete", data |-> Some(o.result.report),
                 sources |-> o.result.sources, resources |-> None,
                 error |-> None]
       ELSE analysisState' =
                [analysisState EXCEPT
                   !.status = "error",
                   !.error = Some(IF o.result.message # ""
                                  THEN o.result.message
                                  ELSE AnalysisFailedMessage)]
    /\ lastOp' = [Op("settle") EXCEPT !.noSpan = o.noSpan]
    /\ UNCHANGED <<file, preview, context, inputMode>>
    /\ Sync(camera, TRUE)

\* the reset button of the preview, or onBack of the report view
ResetShown ==
    \/ preview # None
    \/ analysisState.status = "complete" /\ analysisState.data # None

\* reset without setContext('')
reset_context ==
    /\ ResetShown
    /\ file' = None
    /\ preview' = None
    /\ analysisState' = IdleState
    /\ lastOp' = Op("reset")
    /\ UNCHANGED <<context, inputMode, calls>>
    /\ Sync(camera, TRUE)

reset ==
    /\ ResetShown
    /\ file' = None
    /\ preview' = None
    /\ context' = ""
    /\ analysisState' = IdleState
    /\ lastOp' = Op("reset")
    /\ UNCHANGED <<inputMode, calls>>
    /\ Sync(camera, TRUE)

(***************************************************************************)
(* CameraCapture: the steps of the component.                              *)
(***************************************************************************)
AppUnchanged ==
    UNCHANGED <<file, preview, context, analysisState, inputMode, calls, audio,
                aside>>

RunKinds == {"current", "stale", "orphan"}

Pending(c, kind) ==
    IF kind = "current" THEN c.gum.current
    ELSE IF kind = "stale" THEN c.gum.stale > 0
    ELSE c.gum.orphan > 0

Resolved(c, kind) ==
    IF kind = "current" THEN [c EXCEPT !.gum.current = FALSE]
    ELSE IF kind = "stale" THEN [c EXCEPT !.gum.stale = @ - 1]
    ELSE [c EXCEPT !.gum.orphan = @ - 1]

\* startCamera after its await: getUserMedia resolved with a stream; the
\* state is set when videoRef.current is there (the instance is mounted)
getUserMediaResolved(kind) ==
    /\ Pending(camera, kind)
    /\ LET c1 == Resolved(camera, kind)
       IN  camera' =
             IF kind = "current"
             THEN [c1 EXCEPT !.own = TRUE, !.stream = Some("own"),
                             !.isInitialized = TRUE]
             ELSE IF kind = "stale"
             THEN [c1 EXCEPT !.stream = Some("stale"),
                             !.isInitialized = TRUE]
             ELSE c1
    /\ lastOp' = Op(IF kind = "current" THEN "camera" ELSE "lateStream")
    /\ AppUnchanged

\* handleCameraError that leaves the input mode alone
handleCameraError_stay(errorMsg) ==
    /\ analysisState' = [analysisState EXCEPT
                           !.status = "error", !.error = Some(errorMsg)]
    /\ inputMode' = inputMode
    /\ lastOp' = Op("cameraError")
    /\ UNCHANGED <<file, preview, context, calls>>

\* handleCameraError(errorMsg)
handleCameraError(errorMsg) ==
    /\ analysisState' = [analysisState EXCEPT
                           !.status = "error", !.error = Some(errorMsg)]
    /\ inputMode' = "upload"
    /\ lastOp' = Op("cameraError")
    /\ UNCHANGED <<file, preview, context, calls>>

\* startCamera after its await: getUserMedia rejected, the catch calls onError
getUserMediaRejected(kind) ==
    /\ Pending(camera, kind)
    /\ handleCameraError(CameraDeniedMessage)
    /\ Sync(Resolved(camera, kind), TRUE)

ControlsShown == CameraMounted /\ camera.isInitialized

\* the PHOTO / VIDEO switch, rendered while not recording
setMode(m) ==
    /\ ControlsShown
    /\ ~camera.isRecording
    /\ camera' = [camera EXCEPT !.mode = m]
    /\ lastOp' = Op("camera")
    /\ AppUnchanged

\* handleCapturePhoto: the frame is drawn and canvas.toBlob is pending
handleCapturePhoto ==
    /\ camera' = [camera EXCEPT !.photos = @ + 1]
    /\ Capped(camera')
    /\ lastOp' = Op("camera")
    /\ AppUnchanged

\* stopRecording, on the camera record
stopRecording(c) ==
    IF c.recorder # None /\ Val(c.recorder).state # "inactive"
    THEN [c EXCEPT !.recorder = Some([Val(c.recorder) EXCEPT !.state = "inactive"]),
                   !.stops = @ + 1,
                   !.isRecording = FALSE,
                   !.timer = "null"]
    ELSE c

\* startRecording.  `thrown`: new MediaRecorder or start() threw.  On a
\* stream without a live track start() throws or the recorder stops at once.
startRecording(thrown) ==
    IF camera.stream = None
    THEN /\ ~thrown
         /\ camera' = camera
         /\ lastOp' = Op("camera")
         /\ AppUnchanged
    ELSE IF thrown
    THEN /\ handleCameraError(RecordingFailedMessage)
         /\ Sync(camera, TRUE)
    ELSE LET s == Val(camera.stream)
         IN  /\ camera' = [camera EXCEPT
                             !.recorder = Some([stream |-> s,
                                                state |-> IF s = "dead" THEN "inactive"
                                                          ELSE "recording"]),
                             !.stops = IF s = "dead" THEN @ + 1 ELSE @,
                             !.isRecording = TRUE,
                             !.timer = "armed",
                             !.ticks = 0,
                             !.elapsed = 0]
             /\ Capped(camera')
             /\ lastOp' = Op("trigger")
             /\ AppUnchanged

\* the trigger button
handleTrigger(thrown) ==
    /\ ControlsShown
    /\ IF camera.mode = "photo"
       THEN ~thrown /\ handleCapturePhoto
       ELSE IF camera.isRecording
       THEN /\ ~thrown
            /\ camera' = stopRecording(camera)
            /\ Capped(camera')
            /\ lastOp' = Op("trigger")
            /\ AppUnchanged
       ELSE startRecording(thrown)

\* the setInterval callback, run `late` ms after its nominal time.  Once the
\* limit is passed a further callback changes nothing but the display.
timerTick(late) ==
    /\ camera.timer = "armed"
    /\ camera.elapsed < LimitMs
    /\ LET elapsed == IntervalMs * (camera.ticks + 1) + late
           c1 == [camera EXCEPT !.ticks = @ + 1, !.elapsed = elapsed]
       IN  camera' = IF elapsed >= LimitMs THEN stopRecording(c1) ELSE c1
    /\ Capped(camera')
    /\ lastOp' = Op("camera")
    /\ AppUnchanged

\* the canvas.toBlob callback; hasBlob is FALSE when the encode gave null
toBlobCallback(hasBlob) ==
    /\ camera.photos > 0
    /\ IF hasBlob
       THEN /\ FreeBlobs # {}
            /\ validateAndSetFile([id |-> nextBlob, type |-> ImageJpeg])
            /\ UNCHANGED <<context, inputMode, calls>>
            /\ Sync([camera EXCEPT !.photos = @ - 1], TRUE)
       ELSE /\ camera' = [camera EXCEPT !.photos = @ - 1]
            /\ lastOp' = Op("camera")
            /\ AppUnchanged

\* recorder.onstop
recorderOnStop ==
    /\ camera.stops > 0
    /\ FreeBlobs # {}
    /\ validateAndSetFile([id |-> nextBlob, type |-> VideoWebm])
    /\ UNCHANGED <<context, inputMode, calls>>
    /\ Sync([camera EXCEPT !.stops = @ - 1], TRUE)

Lateness == {0, MaxLate}

(***************************************************************************)
(* Spec: the session, with the capture component in the photo mode it      *)
(* starts in.  A clip reaches the session through the same onCapture prop  *)
(* as a photo, and a recording that cannot start through the same onError  *)
(* prop as a refused camera; the recorder itself is in SpecCamera.         *)
(***************************************************************************)
Next ==
    \/ \E type \in PickerTypes : handleFileChange(type)
    \/ \E type \in PickerTypes : handleDrop(type)
    \/ \E text \in Contexts : setContext(text)
    \/ \E m \in {"upload", "camera"} : setInputMode(m)
    \/ handleAnalyze
    \/ \E o \in Outcomes : settle(o)
    \/ reset
    \/ \E kind \in RunKinds : getUserMediaResolved(kind)
    \/ \E kind \in RunKinds : getUserMediaRejected(kind)
    \/ \E thrown \in BOOLEAN : handleTrigger(thrown)
    \/ \E hasBlob \in BOOLEAN : toBlobCallback(hasBlob)

Spec == Init /\ [][Next]_vars

(***************************************************************************)
(* SpecCamera: one instance of the capture component, from its mount on    *)
(* (the state after LIVE OPTICS is pressed), with both modes, the recorder *)
(* and its timer, and the re-rendering of App that typing in the context   *)
(* field causes.                                                           *)
(***************************************************************************)
InitCamera ==
    /\ file = None
    /\ preview = None
    /\ context = ""
    /\ analysisState = IdleState
    /\ inputMode = "camera"
    /\ calls = 0
    /\ lastOp = Op("other")
    /\ camera = Mount(CameraInit)
    /\ audio = AudioInit
    /\ trial = NoTrial
    /\ zoom = ZoomInit
    /\ pcm = NoPcm

NextCamera ==
    \/ \E text \in Contexts : setContext(text)
    \/ \E kind \in RunKinds : getUserMediaResolved(kind)
    \/ \E kind \in RunKinds : getUserMediaRejected(kind)
    \/ \E m \in {"photo", "video"} : setMode(m)
    \/ \E thrown \in BOOLEAN : handleTrigger(thrown)
    \/ \E late \in Lateness : timerTick(late)
    \/ \E hasBlob \in BOOLEAN : toBlobCallback(hasBlob)
    \/ recorderOnStop

SpecCamera == InitCamera /\ [][NextCamera]_vars

\* SpecCamera in which the timer callbacks and the recorder's stop events
\* are delivered as long as they are due; the user may do nothing at all.
SpecCameraFair ==
    /\ SpecCamera
    /\ WF_vars(\E late \in Lateness : timerTick(late))
    /\ WF_vars(recorderOnStop)

(***************************************************************************)
(* SpecSubmit: the session of the upload panel alone, in which            *)
(* handleAnalyze is also run while no blob is held.                        *)
(***************************************************************************)
NextSubmit ==
    \/ \E type \in PickerTypes : handleFileChange(type)
    \/ \E text \in Contexts : setContext(text)
    \/ handleAnalyze
    \/ handleAnalyzeWithoutBlob
    \/ \E o \in Outcomes : settle(o)
    \/ reset

SpecSubmit == Init /\ [][NextSubmit]_vars

(***************************************************************************)
(* SpecAnalyze: analyzeWaterImage as a function of what the service        *)
(* answers, over every response within the bounds.                         *)
(***************************************************************************)
InitAnalyze ==
    /\ file = None
    /\ preview = None
    /\ context = ""
    /\ analysisState = IdleState
    /\ inputMode = "upload"
    /\ calls = 0
    /\ lastOp = Op("init")
    /\ camera = CameraInit
    /\ audio = AudioInit
    /\ trial \in {[NoTrial EXCEPT !.response = Some(r)] : r \in Responses}
    /\ zoom = ZoomInit
    /\ pcm = NoPcm

\* How navigator.geolocation answers: with a position, with an error
\* (permission denied, timeout), or it is not there at all.
GeoOutcomes == {"position", "denied", "timeout", "unsupported"}

Position == [latitude |-> 0, longitude |-> 0]

\* getGeoLocation without its catch
getGeoLocation_uncaught(geo) ==
    IF geo = "unsupported" THEN [threw |-> FALSE, location |-> None]
    ELSE IF geo = "position" THEN [threw |-> FALSE, location |-> Some(Position)]
    ELSE [threw |-> TRUE, location |-> None]

\* what awaiting getGeoLocation() gives: whether it threw, and the location
getGeoLocation(geo) ==
    IF geo = "unsupported" THEN [threw |-> FALSE, location |-> None]
    ELSE IF geo = "position" THEN [threw |-> FALSE, location |-> Some(Position)]
    ELSE [threw |-> FALSE, location |-> None]

GeolocationErrorMessage == "User denied Geolocation"

\* The request to generateContent: toolConfig.retrievalConfig.latLng is
\* there when the location is not null.
generateContent(location) ==
    [latLng |-> IF location # None THEN location ELSE None]

\* One call of analyzeWaterImage: the file is read, the location asked for,
\* the request sent and the response parsed.
analyze ==
    /\ trial.response # None
    /\ trial.outcome = None
    /\ LET r == Val(trial.response)
           result == analyzeWaterImage(r)
       IN  IF r.failure = "read"
           THEN trial' = [trial EXCEPT !.outcome = Some(result)]
           ELSE \E geo \in GeoOutcomes :
                  LET got == getGeoLocation(geo)
                  IN  IF got.threw
                      THEN trial' = [trial EXCEPT
                               !.geo = Some(geo),
                               !.outcome = Some([ok |-> FALSE,
                                                 message |-> GeolocationErrorMessage,
                                                 report |-> EmptyObject,
                                                 sources |-> <<>>])]
                      ELSE trial' = [trial EXCEPT
                               !.geo = Some(geo),
                               !.requests = <<generateContent(got.location)>>,
                               !.outcome = Some(result)]
    /\ UNCHANGED <<file, preview, context, analysisState, inputMode, calls,
                   lastOp, camera, audio, zoom, pcm>>

NextAnalyze == analyze

SpecAnalyze == InitAnalyze /\ [][NextAnalyze]_vars

(***************************************************************************)
(* ReportView: the steps of the component.                                 *)
(***************************************************************************)
ViewUnchanged ==
    UNCHANGED <<file, preview, context, analysisState, inputMode, calls,
                camera, aside>>

\* a new AudioBufferSourceNode takes the least id that nothing refers to
FreeSources == (1..MaxSources) \ (audio.playing \cup audio.ended)
nextSource == CHOOSE i \in FreeSources : \A k \in FreeSources : i <= k

\* what a generateAudioReport call and the decoding of its payload come to:
\* a buffer, no audio payload in the response ("Audio synthesis failed."),
\* a rejected request, or a payload that decodeAudioData throws on
SpeechOutcomes == {"buffer", "noPayload", "rejected", "undecodable"}

\* source.stop(): the source goes silent and its ended event is queued
stopSource(a, id) ==
    IF id \in a.playing
    THEN [a EXCEPT !.playing = @ \ {id}, !.ended = @ \cup {id}]
    ELSE a

\* handlePlayAudio up to its await; the button is disabled={isAudioLoading}
handlePlayAudio ==
    /\ ViewShown
    /\ ~audio.isAudioLoading
    /\ IF audio.isPlaying
       THEN /\ audio' = [(IF audio.activeSourceRef # None
                          THEN stopSource(audio, Val(audio.activeSourceRef))
                          ELSE audio)
                         EXCEPT !.activeSourceRef = None, !.isPlaying = FALSE]
            /\ lastOp' = Op("stop")
       ELSE /\ audio' = [audio EXCEPT !.isAudioLoading = TRUE, !.synth = TRUE]
            /\ lastOp' = [Op("play") EXCEPT !.issued = 1]
    /\ ViewUnchanged

\* speechSettled whose catch calls generateAudioReport again
speechSettled_retry(outcome) ==
    /\ audio.synth
    /\ IF outcome = "buffer"
       THEN /\ FreeSources # {}
            /\ audio' = [audio EXCEPT
                           !.ctx = "open",
                           !.own = @ \cup {nextSource},
                           !.playing = @ \cup {nextSource},
                           !.activeSourceRef = Some(nextSource),
                           !.isPlaying = TRUE,
                           !.isAudioLoading = FALSE,
                           !.synth = FALSE]
            /\ lastOp' = Op("speechOk")
       ELSE /\ audio' = [audio EXCEPT
                           !.ctx = IF outcome = "undecodable" THEN "open" ELSE @]
            /\ lastOp' = [Op("speechFailed") EXCEPT !.issued = 1]
    /\ ViewUnchanged

\* speechSettled without the finally block
speechSettled_loading(outcome) ==
    /\ audio.synth
    /\ IF outcome = "buffer"
       THEN /\ FreeSources # {}
            /\ audio' = [audio EXCEPT
                           !.ctx = "open",
                           !.own = @ \cup {nextSource},
                           !.playing = @ \cup {nextSource},
                           !.activeSourceRef = Some(nextSource),
                           !.isPlaying = TRUE,
                           !.isAudioLoading = FALSE,
                           !.synth = FALSE]
            /\ lastOp' = Op("speechOk")
       ELSE /\ audio' = [audio EXCEPT
                           !.ctx = IF outcome = "undecodable" THEN "open" ELSE @,
                           !.synth = FALSE]
            /\ lastOp' = Op("speechFailed")
    /\ ViewUnchanged

\* handlePlayAudio after its awaits, in the view that is mounted
speechSettled(outcome) ==
    /\ audio.synth
    /\ IF outcome = "buffer"
       THEN /\ FreeSources # {}
            /\ audio' = [audio EXCEPT
                           !.ctx = "open",
                           !.own = @ \cup {nextSource},
                           !.playing = @ \cup {nextSource},
                           !.activeSourceRef = Some(nextSource),
                           !.isPlaying = TRUE,
                           !.isAudioLoading = FALSE,
                           !.synth = FALSE]
            /\ lastOp' = Op("speechOk")
       ELSE /\ audio' = [audio EXCEPT
                           !.ctx = IF outcome = "undecodable" THEN "open" ELSE @,
                           !.isAudioLoading = FALSE,
                           !.synth = FALSE]
            /\ lastOp' = Op("speechFailed")
    /\ ViewUnchanged

\* handlePlayAudio after its awaits, in a view that was unmounted: with no
\* context made before the unmount a new one is made and the source plays;
\* in a closed context it stays silent
orphanSpeechSettled(had, outcome) ==
    /\ had \in audio.orphanSynth
    /\ IF outcome = "buffer" /\ had = "null"
       THEN /\ FreeSources # {}
            /\ audio' = [audio EXCEPT !.playing = @ \cup {nextSource},
                                      !.orphanSynth = @ \ {had}]
       ELSE audio' = [audio EXCEPT !.orphanSynth = @ \ {had}]
    /\ lastOp' = Op("orphanSpeech")
    /\ ViewUnchanged

\* a source played its buffer to the end
sourceFinished(id) ==
    /\ id \in audio.playing
    /\ audio' = [audio EXCEPT
                   !.playing = @ \ {id},
                   !.ended = IF id \in audio.own THEN @ \cup {id} ELSE @]
    /\ lastOp' = Op("finished")
    /\ ViewUnchanged

\* source.onended
onended(id) ==
    /\ id \in audio.ended
    /\ audio' = [audio EXCEPT
                   !.ended = @ \ {id},
                   !.own = @ \ {id},
                   !.isPlaying = FALSE,
                   !.activeSourceRef = None]
    /\ lastOp' = Op("ended")
    /\ ViewUnchanged

(***************************************************************************)
(* SpecView: the session from a held blob on, with the report view and its *)
(* audio.                                                                  *)
(***************************************************************************)
InitView ==
    /\ file = Some([id |-> 1, type |-> ImagePng])
    /\ preview = Some(1)
    /\ context = ""
    /\ analysisState = IdleState
    /\ inputMode = "upload"
    /\ calls = 0
    /\ lastOp = [Op("validate") EXCEPT !.type = Some(ImagePng)]
    /\ camera = CameraInit
    /\ audio = AudioInit
    /\ trial = NoTrial
    /\ zoom = ZoomInit
    /\ pcm = NoPcm

NextView ==
    \/ handleAnalyze
    \/ \E o \in Outcomes : settle(o)
    \/ reset
    \/ handlePlayAudio
    \/ \E outcome \in SpeechOutcomes : speechSettled(outcome)
    \/ \E had \in {"null", "closed"}, outcome \in SpeechOutcomes :
          orphanSpeechSettled(had, outcome)
    \/ \E id \in 1..MaxSources : sourceFinished(id)
    \/ \E id \in 1..MaxSources : onended(id)

SpecView == InitView /\ [][NextView]_vars

(***************************************************************************)
(* SpecZoom: the pinch gesture of CameraCapture on an initialized camera.  *)
(* Distances (Math.hypot of the two touch points) are whole numbers up to  *)
(* MaxDist, zoom values are exact rationals.  zoomCap is the range the     *)
(* track reported, or None when the track has no zoom capability; a stream *)
(* is there whenever zoomCap is.  applying holds the targets of the        *)
(* applyConstraints calls that have not settled; last records the handler  *)
(* that ran last, its touches and distance, whether it made the call and   *)
(* with which target (0 when it made none).                                *)
(***************************************************************************)
ZoomRanges == {[min |-> Rat(1, 1), max |-> Rat(3, 1)],
               [min |-> Rat(1, 2), max |-> Rat(2, 1)]}

InitZoom ==
    /\ file = None
    /\ preview = None
    /\ context = ""
    /\ analysisState = IdleState
    /\ inputMode = "camera"
    /\ calls = 0
    /\ lastOp = Op("other")
    /\ camera = CameraInit
    /\ audio = AudioInit
    /\ trial = NoTrial
    /\ \E cap \in {None} \cup {Some(r) : r \in ZoomRanges} :
          zoom = [ZoomInit EXCEPT
                    !.zoomCap = cap,
                    !.zoomRef = IF cap = None THEN @ ELSE Val(cap).min,
                    !.currentZoomDisplay = IF cap = None THEN @ ELSE Val(cap).min]
    /\ pcm = NoPcm

ZoomUnchanged ==
    UNCHANGED <<file, preview, context, analysisState, inputMode, calls,
                lastOp, camera, audio, trial, pcm>>

\* handleTouchStart with `touches` fingers down, the first two `dist` apart
handleTouchStart(touches, dist) ==
    /\ zoom' = [(IF touches = 2
                 THEN [zoom EXCEPT !.baseDistRef = dist,
                                   !.baseZoomRef = zoom.zoomRef]
                 ELSE zoom)
                EXCEPT !.last = [op |-> "start", touches |-> touches,
                                 dist |-> dist, called |-> FALSE,
                                 target |-> Rat(0, 1)]]
    /\ ZoomUnchanged

\* targetZoom without the clamp
targetZoom_unclamped(z, dist, cap) ==
    Rat(z.baseZoomRef[1] * dist, z.baseZoomRef[2] * z.baseDistRef)

\* Math.min(Math.max(baseZoomRef.current * (dist / baseDistRef.current),
\*                   zoomCap.min), zoomCap.max)
targetZoom(z, dist, cap) ==
    RatMin(RatMax(Rat(z.baseZoomRef[1] * dist, z.baseZoomRef[2] * z.baseDistRef),
                  cap.min),
           cap.max)

\* handleTouchMove up to its await
handleTouchMove(touches, dist) ==
    /\ IF touches = 2 /\ zoom.zoomCap # None
       THEN IF zoom.baseDistRef = 0
            THEN zoom' = [zoom EXCEPT
                            !.last = [op |-> "move", touches |-> touches,
                                      dist |-> dist, called |-> FALSE,
                                      target |-> Rat(0, 1)]]
            ELSE LET t == targetZoom(zoom, dist, Val(zoom.zoomCap))
                 IN  /\ t[2] <= MaxDen
                     /\ Cardinality(zoom.applying \cup {t}) <= MaxApplying
                     /\ zoom' = [zoom EXCEPT
                                   !.applying = @ \cup {t},
                                   !.last = [op |-> "move", touches |-> touches,
                                             dist |-> dist, called |-> TRUE,
                                             target |-> t]]
       ELSE zoom' = [zoom EXCEPT
                       !.last = [op |-> "move", touches |-> touches,
                                 dist |-> dist, called |-> FALSE,
                                 target |-> Rat(0, 1)]]
    /\ ZoomUnchanged

\* Number(x.toFixed(1)): the nearest multiple of 1/10, the larger of two
toFixed1(x) == Rat((20 * x[1] + x[2]) \div (2 * x[2]), 10)

\* applyConstraintsSettled that records the zoom whatever the device said
applyConstraintsSettled_optimistic(t, ok) ==
    /\ t \in zoom.applying
    /\ zoom' = [zoom EXCEPT
                  !.applying = @ \ {t},
                  !.zoomRef = t,
                  !.currentZoomDisplay = toFixed1(t),
                  !.last = [op |-> IF ok THEN "settled" ELSE "rejected",
                            touches |-> 0, dist |-> 0,
                            called |-> FALSE, target |-> t]]
    /\ ZoomUnchanged

\* handleTouchMove after its await: applyConstraints resolved or rejected
applyConstraintsSettled(t, ok) ==
    /\ t \in zoom.applying
    /\ zoom' = [zoom EXCEPT
                  !.applying = @ \ {t},
                  !.zoomRef = IF ok THEN t ELSE @,
                  !.currentZoomDisplay = IF ok THEN toFixed1(t) ELSE @,
                  !.last = [op |-> IF ok THEN "settled" ELSE "rejected",
                            touches |-> 0, dist |-> 0,
                            called |-> FALSE, target |-> t]]
    /\ ZoomUnchanged

NextZoom ==
    \/ \E touches \in 1..3, dist \in 0..MaxDist : handleTouchStart(touches, dist)
    \/ \E touches \in 1..3, dist \in 0..MaxDist : handleTouchMove(touches, dist)
    \/ \E t \in zoom.applying, ok \in BOOLEAN : applyConstraintsSettled(t, ok)

SpecZoom == InitZoom /\ [][NextZoom]_vars

(***************************************************************************)
(* SpecDecode: decodeAudioData as a function of the payload (a sequence of *)
(* bytes, the Uint8Array that decodeBase64 built, so that data.buffer      *)
(* holds exactly these bytes) and of the channel count.  A decoded sample  *)
(* is the fraction <<numerator, 32768>>.                                   *)
(***************************************************************************)
ByteVals == {0, 128, 255}
Payloads == UNION {[1..n -> ByteVals] : n \in 0..MaxBytes}

\* element k (from 0) of new Int16Array(data.buffer): two bytes, the low one
\* first, as a signed 16-bit number
dataInt16(data, k) ==
    LET u == data[2 * k + 1] + 256 * data[2 * k + 2]
    IN  IF u >= 32768 THEN u - 65536 ELSE u

\* the sample that frame i of a channel takes, with the channels laid out
\* one after the other
planarIndex(i, channel, numChannels, length) == channel * length + i

\* the sample that frame i of a channel takes: i * numChannels + channel
sampleIndex(i, channel, numChannels, length) == i * numChannels + channel

\* decodeAudioData(data, ctx, sampleRate, numChannels).  new Int16Array
\* throws a RangeError on a buffer of odd length; createBuffer takes the
\* whole part of frameCount as the length and throws a NotSupportedError
\* when that is 0; the loop writes frame i while i < frameCount, and a write
\* past the length of the channel is dropped.
decodeAudioData(data, numChannels) ==
    IF Len(data) % 2 # 0
    THEN [ok |-> FALSE, error |-> "RangeError", channels |-> <<>>]
    ELSE LET samples == Len(data) \div 2
             length == samples \div numChannels
         IN  IF length = 0
             THEN [ok |-> FALSE, error |-> "NotSupportedError", channels |-> <<>>]
             ELSE [ok |-> TRUE, error |-> "",
                   channels |->
                      [c \in 1..numChannels |->
                          [i \in 1..length |->
                              <<dataInt16(data, sampleIndex(i - 1, c - 1,
                                                            numChannels, length)),
                                32768>>]]]

InitDecode ==
    /\ file = None
    /\ preview = None
    /\ context = ""
    /\ analysisState = IdleState
    /\ inputMode = "upload"
    /\ calls = 0
    /\ lastOp = Op("init")
    /\ camera = CameraInit
    /\ audio = AudioInit
    /\ trial = NoTrial
    /\ zoom = ZoomInit
    /\ pcm \in [data : Payloads, numChannels : 1..MaxChannels, result : {None}]

decode ==
    /\ pcm.result = None
    /\ pcm' = [pcm EXCEPT !.result = Some(decodeAudioData(pcm.data, pcm.numChannels))]
    /\ UNCHANGED <<file, preview, context, analysisState, inputMode, calls,
                   lastOp, camera, audio, trial, zoom>>

NextDecode == decode

SpecDecode == InitDecode /\ [][NextDecode]_vars

(***************************************************************************)
(* Properties.                                                             *)
(***************************************************************************)
status == analysisState.status

C2_AtMostOneCall == calls <= 1

\* C3 as stated: a call that settles after reset leaves the session state
\* exactly as reset left it.
C3_SettleAfterResetDiscarded ==
    [][(lastOp.op = "reset" /\ lastOp'.op = "settle") =>
          /\ analysisState' = IdleState
          /\ file' = None
          /\ preview' = None
          /\ context' = ""
      ]_vars

\* C4: after reset the blob and the preview are null, the context is empty
\* and the analysis state is the idle state (no report, no sources, no error).
C4_ResetClears ==
    lastOp.op = "reset" =>
        /\ file = None
        /\ preview = None
        /\ context = ""
        /\ status = "idle"
        /\ analysisState.data = None
        /\ analysisState.sources = <<>>
        /\ analysisState.error = None

\* reset ran while a call was outstanding
C4_Witness == lastOp.op = "reset" /\ calls > 0

\* C5: a rejected blob leaves the held blob, the preview, the report and the
\* sources as they were.
C5_RejectKeeps ==
    [][(lastOp'.op = "validate" /\ ~isAccepted(Val(lastOp'.type))) =>
          /\ file' = file
          /\ preview' = preview
          /\ analysisState'.data = analysisState.data
          /\ analysisState'.sources = analysisState.sources
      ]_vars

\* a blob was rejected while a report was stored
C5_Witness ==
    /\ lastOp.op = "validate"
    /\ ~isAccepted(Val(lastOp.type))
    /\ analysisState.data # None

C7_NoSpanFails ==
    [][(lastOp'.op = "settle" /\ lastOp'.noSpan) =>
          /\ analysisState'.status = "error"
          /\ analysisState'.error # None
          /\ Val(analysisState'.error) # ""
          /\ analysisState'.data = analysisState.data
          /\ analysisState'.sources = analysisState.sources
      ]_vars

\* a call settled on a response without a brace span
C7_Witness ==
    /\ lastOp.op = "settle"
    /\ lastOp.noSpan
    /\ status = "error"

\* the well-formed JSON objects of a text, as spans
objectSpans(text) ==
    {sp \in (1..Len(text)) \X (1..Len(text)) :
        sp[1] < sp[2] /\ JSONParse(SubSeq(text, sp[1], sp[2])).ok}

\* the object has the shape of AnalysisReport
reportShaped(v) ==
    /\ v.keys = AnalysisReport
    /\ v.environmentalRiskLevel \in RiskLevel
    /\ v.confidenceLevel \in ConfidenceLevel

\* the citations of the response, in order
citations(chunks) ==
    LET kept == SelectSeq(chunks, LAMBDA c : c.kind \in {"web", "maps"})
    IN  [i \in 1..Len(kept) |-> [title |-> kept[i].title, uri |-> kept[i].uri]]

\* C8 as stated: when the response text holds exactly one well-formed JSON
\* object and it has the report shape, whatever surrounds it, the call
\* succeeds with that object and the sources of the citations.
C8_OneObjectParsed ==
    (trial.outcome # None /\ Val(trial.response).failure = "none") =>
        LET r == Val(trial.response)
            spans == objectSpans(r.text)
        IN  Cardinality(spans) = 1 =>
                LET sp == CHOOSE x \in spans : TRUE
                    v == JSONParse(SubSeq(r.text, sp[1], sp[2])).value
                IN  reportShaped(v) =>
                        /\ Val(trial.outcome).ok
                        /\ Val(trial.outcome).report = v
                        /\ Val(trial.outcome).sources = citations(r.chunks)

\* C9 as stated: a session in complete holds a report with all nine fields,
\* a risk level of RiskLevel and a confidence level of ConfidenceLevel.
C9_NoPartialReport ==
    status = "complete" =>
        /\ analysisState.data # None
        /\ reportShaped(Val(analysisState.data))

isActive(c) == c.recorder # None /\ Val(c.recorder).state = "recording"

\* C10 as stated: a recording never lasts longer than 10.0 s, and it is
\* stopped at the first timer tick that measures 10.0 s or more.
C10_AtMostTenSeconds ==
    [][/\ (isActive(camera) /\ ~isActive(camera')) => camera'.elapsed <= LimitMs
       /\ (isActive(camera) /\ camera'.elapsed >= LimitMs) => ~isActive(camera')
      ]_vars

\* the effect of the capture component ran again in this step, or the
\* component was unmounted
effectReran ==
    /\ CameraMounted /\ CameraMounted'
    /\ camera'.gum.current
    /\ ~camera.gum.current \/ camera'.gum.stale = camera.gum.stale + 1
tornDown == CameraMounted /\ ~CameraMounted'

\* C11 as stated: after the component is torn down or its effect re-runs,
\* every stream it requested ends up stopped and no timer stays armed.  A
\* stream is stopped by the cleanup of the run that requested it and by
\* nothing else, so a stream that arrives after that cleanup stays live.
C11_StreamsReleased ==
    [][/\ lastOp'.op # "lateStream"
       /\ (effectReran \/ tornDown) =>
              /\ camera'.timer # "armed"
              /\ camera'.stream # Some("own")
      ]_vars

\* C12: a two-finger move on a camera with a zoom range calls
\* applyConstraints with clamp(z0 * D1 / D0, min, max), z0 and D0 being the
\* zoom and the distance recorded at the start of the gesture; when D0 is
\* zero it makes no call and the recorded zoom stays as it is.
C12_PinchZoom ==
    [][(zoom'.last.op = "move" /\ zoom'.last.touches = 2 /\ zoom.zoomCap # None) =>
          LET D0 == zoom.baseDistRef
              D1 == zoom'.last.dist
              z0 == zoom.baseZoomRef
              cap == Val(zoom.zoomCap)
          IN  IF D0 = 0
              THEN /\ ~zoom'.last.called
                   /\ zoom'.applying = zoom.applying
                   /\ zoom'.zoomRef = zoom.zoomRef
              ELSE /\ zoom'.last.called
                   /\ zoom'.last.target \in zoom'.applying
                   /\ LET t == zoom'.last.target
                      IN  \* t is z0 * D1 / D0 brought into [min, max]
                          IF z0[1] * D1 * cap.min[2] < cap.min[1] * z0[2] * D0
                          THEN t = cap.min
                          ELSE IF z0[1] * D1 * cap.max[2] > cap.max[1] * z0[2] * D0
                          THEN t = cap.max
                          ELSE t[1] * z0[2] * D0 = z0[1] * D1 * t[2]
      ]_vars

\* a move of a gesture that started at a zoom above the minimum was clamped
C12_Witness ==
    /\ zoom.last.op = "move"
    /\ zoom.last.called
    /\ zoom.zoomCap # None
    /\ zoom.baseZoomRef # Val(zoom.zoomCap).min
    /\ zoom.last.target = Val(zoom.zoomCap).max

\* sample k (from 0) of a payload of little-endian 16-bit signed samples
sample(data, k) ==
    LET lo == data[2 * k + 1]
        hi == data[2 * k + 2]
    IN  IF hi >= 128 THEN lo + 256 * (hi - 256) ELSE lo + 256 * hi

\* the payload of N samples was decoded to C channels of N / C frames, frame
\* i of channel c being sample i * C + c over 32768
decodedInterleaved ==
    LET N == Len(pcm.data) \div 2
        C == pcm.numChannels
        r == Val(pcm.result)
    IN  /\ r.ok
        /\ Len(r.channels) = C
        /\ \A c \in 0..(C - 1) :
              /\ Len(r.channels[c + 1]) = N \div C
              /\ \A i \in 0..((N \div C) - 1) :
                    r.channels[c + 1][i + 1] = <<sample(pcm.data, i * C + c), 32768>>

\* C13 as stated: a payload of N samples, N divisible by the channel count C,
\* decodes to C channels of N / C frames, frame i of channel c being sample
\* i * C + c divided by 32768.
C13_Decode ==
    (pcm.result # None /\ Len(pcm.data) % 2 = 0
        /\ (Len(pcm.data) \div 2) % pcm.numChannels = 0)
    => decodedInterleaved

\* C13 amended: the same for a payload that is not empty.
C13_DecodeNonEmpty ==
    (pcm.result # None /\ Len(pcm.data) % 2 = 0 /\ Len(pcm.data) > 0
        /\ (Len(pcm.data) \div 2) % pcm.numChannels = 0)
    => decodedInterleaved

\* two channels of two frames each were decoded from four different samples
C13_Witness ==
    /\ pcm.result # None
    /\ pcm.numChannels = 2
    /\ Len(pcm.data) = 8
    /\ Val(pcm.result).ok
    /\ Cardinality({sample(pcm.data, k) : k \in 0..3}) = 4

\* C14 as stated: a payload whose byte count is not divisible by
\* channels * 2 decodes without an error to floor(byteCount / (channels * 2))
\* frames a channel.
C14_PartialFrameDropped ==
    (pcm.result # None /\ Len(pcm.data) % (pcm.numChannels * 2) # 0) =>
        /\ Val(pcm.result).ok
        /\ \A c \in 1..pcm.numChannels :
              Len(Val(pcm.result).channels[c]) =
                  Len(pcm.data) \div (pcm.numChannels * 2)

\* C15 as stated: at most one audio source of a report view is playing.
C15_OneSourcePlaying == Cardinality(audio.playing \cap audio.own) <= 1

\* C18: a call to the service is issued only by a step of the user, a
\* submission or a play press, and one a step; the settlement of a call,
\* failed or not, issues none.
C18_NoRetries ==
    [][/\ lastOp'.issued > 0 =>
              /\ lastOp'.issued = 1
              /\ lastOp'.op \in {"analyze", "play"}
       /\ calls' > calls => (calls' = calls + 1 /\ lastOp'.op = "analyze")
       /\ (audio'.synth /\ ~audio.synth) => lastOp'.op = "play"
       /\ lastOp'.op \in {"settle", "speechFailed", "speechOk", "orphanSpeech"} =>
              /\ lastOp'.issued = 0
              /\ calls' <= calls
              /\ audio'.synth => audio.synth /\ lastOp'.op \in {"settle", "orphanSpeech"}
      ]_vars

\* a speech request failed and nothing is pending after it: no speech
\* request of this view or of an earlier one, and no analysis call
C18_Witness ==
    /\ lastOp.op = "speechFailed"
    /\ ~audio.synth
    /\ audio.orphanSynth = {}
    /\ calls = 0

\* C19: when the speech synthesis fails, the playing flag stays false, no
\* source becomes active or starts to play, the loading flag is false again
\* and the analysis state is as it was.
C19_SpeechFailureKeepsState ==
    [][lastOp'.op = "speechFailed" =>
          /\ ~audio.isPlaying
          /\ ~audio'.isPlaying
          /\ audio'.activeSourceRef = None
          /\ audio'.playing = audio.playing
          /\ audio'.own = audio.own
          /\ ~audio'.isAudioLoading
          /\ analysisState' = analysisState
          /\ analysisState'.status = "complete"
          /\ analysisState'.data # None
      ]_vars

\* the synthesis failed in a view that had played before
C19_Witness ==
    /\ lastOp.op = "speechFailed"
    /\ audio.ctx = "open"
    /\ ~audio.isAudioLoading
    /\ analysisState.status = "complete"

\* C16: however the geolocation went, analyzeWaterImage sent one request;
\* when no position was obtained the request has no location, and the call
\* ends as the response alone makes it end; with a position the request
\* carries it.
C16_GeolocationBestEffort ==
    (trial.outcome # None /\ trial.geo # None) =>
        /\ Len(trial.requests) = 1
        /\ Val(trial.geo) # "position" => trial.requests[1].latLng = None
        /\ Val(trial.geo) = "position" => trial.requests[1].latLng = Some(Position)
        /\ Val(trial.outcome) = analyzeWaterImage(Val(trial.response))
        /\ Val(trial.outcome).message # GeolocationErrorMessage

\* the permission was denied and the call returned a report
C16_Witness ==
    /\ trial.geo = Some("denied")
    /\ trial.outcome # None
    /\ Val(trial.outcome).ok
    /\ Len(trial.requests) = 1

\* C17: when getUserMedia is refused or a recording cannot be started, the
\* component calls onError, and after it the status is error, the error
\* message is the one of the failure, the input mode is upload and the
\* capture component is gone.
C17_CameraErrorFallsBack ==
    lastOp.op = "cameraError" =>
        /\ analysisState.status = "error"
        /\ analysisState.error \in {Some(CameraDeniedMessage),
                                    Some(RecordingFailedMessage)}
        /\ inputMode = "upload"
        /\ ~CameraMounted
        /\ camera.stream = None
        /\ ~camera.isRecording

\* a recording could not be started
C17_Witness ==
    /\ lastOp.op = "cameraError"
    /\ analysisState.error = Some(RecordingFailedMessage)
    /\ inputMode = "upload"

\* C20 as stated: in video mode a press of the trigger that raises no
\* error starts a recording when none is active and stops the active one;
\* a recorder that stops queues one stop event, a step stops at most one
\* recorder, and each stop event delivered hands one clip to the session.
C20_TriggerTogglesOneBlob ==
    [][/\ lastOp'.op = "trigger" =>
              IF isActive(camera)
              THEN ~isActive(camera') /\ camera'.stops = camera.stops + 1
              ELSE isActive(camera') /\ camera'.stops = camera.stops
       /\ camera'.stops > camera.stops =>
              /\ camera'.stops = camera.stops + 1
              /\ ~isActive(camera')
       /\ camera'.stops < camera.stops =>
              /\ camera'.stops = camera.stops - 1
              /\ file' # None
              /\ Val(file').type = VideoWebm
      ]_vars

\* C21 as stated: a recorder that is recording, with no clip and no photo
\* of the component waiting to be delivered, stops at some later time, with
\* the timer callbacks delivered fairly and whatever else happens.
C21_RecordingEnds ==
    (isActive(camera) /\ camera.stops = 0 /\ camera.photos = 0)
        ~> ~isActive(camera)

\* the positions of the citations tagged web or maps
taggedChunks(chunks) ==
    {i \in DOMAIN chunks : chunks[i].kind \in {"web", "maps"}}

\* C22: the sources a successful call returns are the citations tagged web
\* or maps, one pair each, in the order of the service: the k-th tagged
\* citation is the k-th source, with its title and uri, and there are as
\* many sources as tagged citations, equal ones included.
C22_SourcesInOrder ==
    (trial.outcome # None /\ Val(trial.outcome).ok) =>
        LET chunks == Val(trial.response).chunks
            sources == Val(trial.outcome).sources
            tagged == taggedChunks(chunks)
        IN  /\ Len(sources) = Cardinality(tagged)
            /\ \A i \in tagged :
                 LET k == Cardinality({j \in tagged : j <= i})
                 IN  /\ sources[k].title = chunks[i].title
                     /\ sources[k].uri = chunks[i].uri

\* the same citation came twice, after one that is not tagged was skipped
\* or not, and both are in the sources
C22_Witness ==
    /\ trial.outcome # None
    /\ Val(trial.outcome).ok
    /\ Len(Val(trial.response).chunks) = MaxChunks
    /\ Len(Val(trial.outcome).sources) = 2
    /\ Val(trial.outcome).sources[1] = Val(trial.outcome).sources[2]

\* C23: a call of analyzeWaterImage is issued only while a blob is held,
\* and the type of that blob starts with image/ or video/; handleAnalyze run
\* while no blob is held issues no call and leaves the session as it was.
C23_CallsHaveMediaBlob ==
    [][/\ (calls' > calls \/ lastOp'.issued > 0) =>
              /\ file # None
              /\ isAccepted(Val(file).type)
              /\ file' = file
       /\ (lastOp'.op = "analyze" /\ file = None) =>
              /\ lastOp'.issued = 0
              /\ calls' = calls
              /\ UNCHANGED <<file, preview, context, analysisState, inputMode>>
      ]_vars

\* handleAnalyze ran without a blob, after a reset that left the call of an
\* accepted blob outstanding
C23_Witness ==
    /\ lastOp.op = "analyze"
    /\ lastOp.issued = 0
    /\ file = None
    /\ calls = 1

\* C24 as stated: a view has at most one speech request outstanding: the
\* button is disabled while one is, so a click issues a request only when
\* none is outstanding; and a click while a source of the view is playing
\* stops it and issues no request.
C24_OneSpeechRequest ==
    [][/\ audio'.synth => audio'.isAudioLoading
       /\ lastOp'.op = "play" => ~audio.synth /\ audio'.synth
       /\ (lastOp'.op \in {"play", "stop"} /\ audio.playing \cap audio.own # {}) =>
              /\ lastOp'.op = "stop"
              /\ lastOp'.issued = 0
              /\ audio'.synth = audio.synth
              /\ audio'.playing \cap audio'.own = {}
      ]_vars

\* C25: when applyConstraints rejects, the recorded zoom and the displayed
\* zoom stay as they were, nothing of the session changes (no error is
\* signalled), the zoom and the distance of the gesture start stay, and a
\* move that follows asks for the zoom of the gesture start scaled by
\* its distance and clamped.
C25_RejectedZoomIgnored ==
    [][/\ zoom'.last.op = "rejected" =>
              /\ zoom'.zoomRef = zoom.zoomRef
              /\ zoom'.currentZoomDisplay = zoom.currentZoomDisplay
              /\ zoom'.baseZoomRef = zoom.baseZoomRef
              /\ zoom'.baseDistRef = zoom.baseDistRef
              /\ zoom'.zoomCap = zoom.zoomCap
              /\ analysisState' = analysisState
              /\ inputMode' = inputMode
              /\ lastOp' = lastOp
       /\ (zoom.last.op = "rejected" /\ zoom'.last.op = "move" /\ zoom'.last.called) =>
              LET D0 == zoom.baseDistRef
                  D1 == zoom'.last.dist
                  z0 == zoom.baseZoomRef
                  cap == Val(zoom.zoomCap)
                  t == zoom'.last.target
              IN  /\ zoom'.baseZoomRef = z0
                  /\ Less(t, cap.min) = FALSE
                  /\ Less(cap.max, t) = FALSE
                  /\ (Less(cap.min, t) /\ Less(t, cap.max)) =>
                         t[1] * z0[2] * D0 = z0[1] * D1 * t[2]
      ]_vars

\* a move was rejected after the gesture had already changed the zoom, and
\* the zoom the device refused is not the recorded one
C25_Witness ==
    /\ zoom.last.op = "rejected"
    /\ zoom.last.target # zoom.zoomRef
    /\ zoom.zoomRef # zoom.baseZoomRef
    /\ zoom.currentZoomDisplay # Rat(1, 1)

\* C26 as stated: when the status is complete the report is the result of
\* the call issued for the blob that is held; so a blob is held then, and
\* the settlement that stored the report was not that of a call left over
\* by a reset.
C26_ReportOfHeldBlob ==
    [][analysisState'.status = "complete" =>
          /\ file' # None
          /\ lastOp'.op = "settle" => lastOp.op # "reset"
      ]_vars

\* C27 as stated: a photo encode or a recorder stop hands its blob to the
\* session only while the capture component is mounted.
C27_NoCaptureAfterTeardown ==
    [][(/\ camera'.photos < camera.photos \/ camera'.stops < camera.stops
        /\ lastOp'.op = "validate")
          => CameraMounted
      ]_vars

\* C28 as stated: every source that is playing was made by the report view
\* that is mounted; when the view is torn down its sources fall silent, and
\* the speech request of a view that is gone starts no source.
C28_SilentAfterTeardown ==
    [][/\ audio'.playing \subseteq audio'.own
       /\ lastOp'.op = "orphanSpeech" => audio'.playing \subseteq audio.playing
      ]_vars

\* C29: the error message is there exactly when the status is error, and
\* then it is not the empty string.
C29_ErrorIffErrorStatus ==
    /\ analysisState.error # None <=> status = "error"
    /\ status = "error" => Val(analysisState.error) # ""

\* a call failed with an error that has no message of its own
C29_Witness ==
    /\ lastOp.op = "settle"
    /\ status = "error"
    /\ analysisState.error = Some(AnalysisFailedMessage)

\* C30 as stated: a report is held only in status complete.
C30_ReportOnlyWhenComplete ==
    analysisState.data # None => status = "complete"

=============================================================================
